---------------------------- MODULE Spec2Model ----------------------------
(***************************************************************************)
(* A model of examples/contrib/concurrent_client.py: the ConcurrentClient  *)
(* facade, its N request workers (_client_worker_process) and its single   *)
(* delivery manager (_manager_worker_process).                             *)
(*                                                                         *)
(* Threads are modelled at the granularity of their accesses to shared     *)
(* state (the two queues, the shutdown event, the futures dict, the        *)
(* counter): each such access is one step.  Queues are the unbounded FIFO  *)
(* queues of queue.Queue / multiprocessing.Queue.                          *)
(***************************************************************************)
EXTENDS Integers, Sequences, FiniteSets, TLC

(***************************************************************************)
(* Bounds of the model.                                                    *)
(***************************************************************************)
NumWorkers   == 2    \* kwargs 'count'
NumCallers   == 2    \* application threads calling execute concurrently
MaxRequests  == 2    \* execute() calls made in one behaviour
MaxSilent    == 1    \* execute_silently() calls made in one behaviour
MaxShutdowns == 2    \* shutdown() calls made in one behaviour
MaxLiveCalls == 2    \* execute and execute_silently calls under FairSpec

Workers == 1..NumWorkers
Callers == 1..NumCallers

(***************************************************************************)
(* Values.                                                                 *)
(***************************************************************************)
\* Python's None, as a work_id (line 218, line 193) and as the default of
\* my_futures.get (line 128).
None == -1

\* The payloads the application submits: the ones of the spec's scenarios.
FailingRequest == -1
Requests == {FailingRequest, 5}

\* The collaborator behind factory(): client.execute echoes request*2 and
\* raises on FailingRequest.  ok = FALSE stands for the raised exception,
\* value for the result or for the exception object.
ClientExecute(request) ==
    IF request = FailingRequest
    THEN [ok |-> FALSE, value |-> request]
    ELSE [ok |-> TRUE,  value |-> request * 2]

\* WorkRequest = namedtuple('WorkRequest', 'request, work_id')
WorkRequest(request, work_id) == [request |-> request, work_id |-> work_id]

\* WorkResponse = namedtuple('WorkResponse', 'is_exception, work_id, response')
WorkResponse(is_exception, work_id, response) ==
    [is_exception |-> is_exception, work_id |-> work_id, response |-> response]

\* What a thread's local variable holds while it holds no item.
NoItem == [work_id |-> None]

\* The work_ids an item can carry: None, or a value of the counter.
Ids == {None} \cup 0..MaxRequests

VARIABLES
    is_shutdown,    \* self.is_shutdown: the event is set
    input_queue,    \* self.input_queue: Seq of WorkRequest
    output_queue,   \* self.output_queue: Seq of WorkResponse
    futures,        \* self.futures: work_id -> future
    counter,        \* self.counter: the next value of itertools.count()
    future,         \* the Future objects created so far, by identity 1..n
    calls,          \* history: for each future, the request and work_id of its call
    c_pc,           \* each caller's position in execute
    c_fut,          \* each caller's local fut
    c_item,         \* each caller's WorkRequest(request, work_id)
    silent,         \* number of execute_silently calls made
    w_pc,           \* each worker's position in _client_worker_process
    workitem,       \* each worker's local workitem
    dequeues,       \* history: input_queue.get returns, per work_id
    executions,     \* history: my_client.execute invocations, per work_id
    my_client,      \* each worker's local my_client
    clients,        \* number of factory() calls each worker has made
    receiver,       \* the client each worker's running execute was called on
    early,          \* history: items on output_queue put before the signal
    m_pc,           \* the manager's position in _manager_worker_process
    m_item,         \* the manager's local workitem
    my_future,      \* the manager's local my_future
    m_errors,       \* number of "error in manager" log records
    sd_pc,          \* the position of the thread calling shutdown
    sd_calls,       \* number of shutdown calls started
    sd_returns      \* number of shutdown calls that returned

vars == << is_shutdown, input_queue, output_queue, futures, counter, future,
           calls, c_pc, c_fut, c_item, silent, w_pc, workitem, dequeues,
           executions, my_client, clients, receiver, early, m_pc,
           m_item,
           my_future, m_errors, sd_pc, sd_calls, sd_returns >>

callerVars   == << c_pc, c_fut, c_item >>
clientVars   == << my_client, clients, receiver >>
workerVars   == << w_pc, workitem, dequeues, executions, clientVars >>
managerVars  == << m_pc, m_item, my_future, m_errors >>
shutdownVars == << sd_pc, sd_calls, sd_returns >>

(***************************************************************************)
(* concurrent.futures.Future                                               *)
(***************************************************************************)
\* Future(): state PENDING.  sets counts the set_result/set_exception calls.
NewFuture == [state |-> "PENDING", value |-> None, sets |-> 0]

Resolved(f) == future[f].state # "PENDING"

\* Future.set_result / Future.set_exception: a future that is already
\* resolved raises InvalidStateError and keeps its outcome.
SetFuture(fut, is_exception, response) ==
    IF fut.state # "PENDING"
    THEN [fut EXCEPT !.sets = @ + 1]
    ELSE [state |-> IF is_exception THEN "EXCEPTION" ELSE "RESULT",
          value |-> response,
          sets  |-> fut.sets + 1]

(***************************************************************************)
(* ConcurrentClient.__init__: the state once the constructor has returned. *)
(* The manager and the workers are started; none has run a statement yet.  *)
(***************************************************************************)
Init ==
    /\ is_shutdown = FALSE
    /\ input_queue = << >>
    /\ output_queue = << >>
    /\ futures = << >>
    /\ counter = 0
    /\ future = << >>
    /\ calls = << >>
    /\ c_pc = [c \in Callers |-> "idle"]
    /\ c_fut = [c \in Callers |-> None]
    /\ c_item = [c \in Callers |-> NoItem]
    /\ silent = 0
    /\ w_pc = [w \in Workers |-> "start"]
    /\ workitem = [w \in Workers |-> NoItem]
    /\ dequeues = [id \in Ids |-> 0]
    /\ executions = [id \in Ids |-> 0]
    /\ my_client = [w \in Workers |-> None]
    /\ clients = [w \in Workers |-> 0]
    /\ receiver = [w \in Workers |-> None]
    /\ early = 0
    /\ m_pc = "check"
    /\ m_item = NoItem
    /\ my_future = None
    /\ m_errors = 0
    /\ sd_pc = "idle"
    /\ sd_calls = 0
    /\ sd_returns = 0

(***************************************************************************)
(* ConcurrentClient.execute                                                *)
(***************************************************************************)
\* next(self.counter) on itertools.count(): the value after the one returned.
CounterNextBroken(c) == c
CounterNext(c) == c + 1

\* line 206: fut, work_id = Future(), next(self.counter)
ExecuteCall(c) ==
    /\ c_pc[c] = "idle"
    /\ Len(calls) < MaxRequests
    /\ \E request \in Requests :
          /\ c_item' = [c_item EXCEPT ![c] = WorkRequest(request, counter)]
          /\ calls' = Append(calls, WorkRequest(request, counter))
    /\ counter' = CounterNext(counter)
    /\ future' = Append(future, NewFuture)
    /\ c_fut' = [c_fut EXCEPT ![c] = Len(future) + 1]
    /\ c_pc' = [c_pc EXCEPT ![c] = "put"]
    /\ UNCHANGED << is_shutdown, input_queue, output_queue, futures, silent,
                    workerVars, managerVars, shutdownVars,
                    early >>

\* line 207: self.input_queue.put(WorkRequest(request, work_id))
ExecutePut(c) ==
    /\ c_pc[c] = "put"
    /\ input_queue' = Append(input_queue, c_item[c])
    /\ c_pc' = [c_pc EXCEPT ![c] = "register"]
    /\ UNCHANGED << is_shutdown, output_queue, futures, counter, future, calls,
                    c_fut, c_item, silent, workerVars, managerVars,
                    shutdownVars,
                    early >>

\* self.futures[work_id] = fut
Register(registry, work_id, fut) ==
    [k \in DOMAIN registry \cup {work_id} |->
        IF k = work_id THEN fut ELSE registry[k]]

\* lines 208-209: self.futures[work_id] = fut; return fut
ExecuteRegister(c) ==
    /\ c_pc[c] = "register"
    /\ futures' = Register(futures, c_item[c].work_id, c_fut[c])
    /\ c_pc' = [c_pc EXCEPT ![c] = "idle"]
    /\ c_fut' = [c_fut EXCEPT ![c] = None]
    /\ c_item' = [c_item EXCEPT ![c] = NoItem]
    /\ UNCHANGED << is_shutdown, input_queue, output_queue, counter, future,
                    calls, silent, workerVars, managerVars, shutdownVars,
                    early >>

(***************************************************************************)
(* ConcurrentClient.execute_silently                                       *)
(***************************************************************************)
\* line 218: WorkRequest(request, None)
SilentRequestTagged(request) == WorkRequest(request, counter)
SilentRequest(request) == WorkRequest(request, None)

\* line 218: self.input_queue.put(WorkRequest(request, None))
ExecuteSilently(c) ==
    /\ c_pc[c] = "idle"
    /\ silent < MaxSilent
    /\ \E request \in Requests :
          input_queue' = Append(input_queue, SilentRequest(request))
    /\ silent' = silent + 1
    /\ UNCHANGED << is_shutdown, output_queue, futures, counter, future, calls,
                    callerVars, workerVars, managerVars, shutdownVars,
                    early >>

(***************************************************************************)
(* _client_worker_process                                                  *)
(***************************************************************************)
\* lines 100, 104: output_queue.put(WorkResponse(...)), once per item
PutResponseTwice(queue, item) == Append(Append(queue, item), item)
PutResponseUnlessShutdown(queue, item) ==
    IF is_shutdown THEN queue ELSE Append(queue, item)
PutResponse(queue, item) == Append(queue, item)

\* factory(): every call creates a new client, named here by the worker in
\* whose context the call is made.
FactorySingleton(w) == 1
Factory(w) == w

\* lines 89-90: my_client = factory()
WorkerStart(w) ==
    /\ w_pc[w] = "start"
    /\ my_client' = [my_client EXCEPT ![w] = Factory(w)]
    /\ clients' = [clients EXCEPT ![w] = @ + 1]
    /\ w_pc' = [w_pc EXCEPT ![w] = "check"]
    /\ UNCHANGED << is_shutdown, input_queue, output_queue, futures, counter,
                    future, calls, callerVars, silent, workitem, managerVars,
                    dequeues, executions, receiver,
                    shutdownVars,
                    early >>

\* line 91: while not is_shutdown.is_set()  (line 108 once it is set)
WorkerCheck(w) ==
    /\ w_pc[w] = "check"
    /\ w_pc' = [w_pc EXCEPT ![w] = IF is_shutdown THEN "done" ELSE "get"]
    /\ UNCHANGED << is_shutdown, input_queue, output_queue, futures, counter,
                    future, calls, callerVars, silent, workitem, managerVars,
                    dequeues, executions, clientVars,
                    shutdownVars,
                    early >>

\* What input_queue.get leaves on the queue: the item returned is removed.
TakenPeek(queue) == queue
Taken(queue) == Tail(queue)

\* lines 93-99: workitem = input_queue.get(timeout=1) returns an item.  A
\* WorkRequest is a 2-tuple, so 'not workitem' is false for every item, and
\* the worker calls my_client.execute(workitem.request).
WorkerGet(w) ==
    /\ w_pc[w] = "get"
    /\ input_queue # << >>
    /\ workitem' = [workitem EXCEPT ![w] = Head(input_queue)]
    /\ input_queue' = Taken(input_queue)
    /\ dequeues' = [dequeues EXCEPT ![Head(input_queue).work_id] = @ + 1]
    /\ receiver' = [receiver EXCEPT ![w] = my_client[w]]
    /\ w_pc' = [w_pc EXCEPT ![w] = "exec"]
    /\ UNCHANGED << is_shutdown, output_queue, futures, counter, future, calls,
                    callerVars, silent, executions, my_client, clients,
                    managerVars, shutdownVars,
                    early >>

\* lines 93, 106-107: the get times out on an empty queue, queue.Empty is
\* swallowed and the loop goes back to its test.
WorkerTimeout(w) ==
    /\ w_pc[w] = "get"
    /\ input_queue = << >>
    /\ w_pc' = [w_pc EXCEPT ![w] = "check"]
    /\ UNCHANGED << is_shutdown, input_queue, output_queue, futures, counter,
                    future, calls, callerVars, silent, workitem, managerVars,
                    dequeues, executions, clientVars,
                    shutdownVars,
                    early >>

\* lines 99-105: the WorkResponse built from the outcome of
\* my_client.execute(workitem.request)
ResponseFor(item) ==
    LET outcome == ClientExecute(item.request)
    IN  WorkResponse(~outcome.ok, item.work_id, outcome.value)

\* lines 100-107: where the worker goes once the item is handled.  The
\* exception of a failing request is caught at line 101, so the loop goes
\* back to its test after a failure as after a success.
AfterExecuteDies(item) ==
    IF ClientExecute(item.request).ok THEN "check" ELSE "done"
AfterExecute(item) == "check"

\* lines 99-105: the execute returns or raises; put the response (the
\* result, or the exception caught at line 101) on the output queue.
WorkerExecute(w) ==
    /\ w_pc[w] = "exec"
    /\ output_queue' = PutResponse(output_queue, ResponseFor(workitem[w]))
    /\ executions' = [executions EXCEPT ![workitem[w].work_id] = @ + 1]
    /\ receiver' = [receiver EXCEPT ![w] = None]
    /\ early' = IF is_shutdown THEN early
                ELSE early + Len(output_queue') - Len(output_queue)
    /\ workitem' = [workitem EXCEPT ![w] = NoItem]
    /\ w_pc' = [w_pc EXCEPT ![w] = AfterExecute(workitem[w])]
    /\ UNCHANGED << is_shutdown, input_queue, futures, counter, future, calls,
                    callerVars, silent, dequeues, my_client, clients,
                    managerVars, shutdownVars >>

Worker(w) ==
    \/ WorkerStart(w)
    \/ WorkerCheck(w)
    \/ WorkerGet(w)
    \/ WorkerTimeout(w)
    \/ WorkerExecute(w)

(***************************************************************************)
(* _manager_worker_process                                                 *)
(***************************************************************************)
\* line 125: the test of the manager's loop, while not is_shutdown.is_set():
\* the loop ends when the signal is set, whatever the output queue holds.
ManagerStopsDrained == is_shutdown /\ output_queue = << >>
ManagerStops == is_shutdown

\* line 125 (line 141 once the loop has ended)
ManagerCheck ==
    /\ m_pc = "check"
    /\ m_pc' = IF ManagerStops THEN "done" ELSE "get"
    /\ UNCHANGED << is_shutdown, input_queue, output_queue, futures, counter,
                    future, calls, callerVars, silent, workerVars, m_item,
                    my_future, m_errors, shutdownVars,
                    early >>

\* line 127: workitem = output_queue.get(), blocking without a timeout
ManagerGet ==
    /\ m_pc = "get"
    /\ output_queue # << >>
    /\ m_item' = Head(output_queue)
    /\ output_queue' = Tail(output_queue)
    /\ early' = IF early > 0 THEN early - 1 ELSE 0
    /\ m_pc' = "lookup"
    /\ UNCHANGED << is_shutdown, input_queue, futures, counter, future, calls,
                    callerVars, silent, workerVars, my_future, m_errors,
                    shutdownVars >>

\* The key the manager looks up: workitem.work_id
LookupKeyLatest(item) == counter - 1
LookupKey(item) == item.work_id

\* my_futures.get(work_id, None)
LookupLoose(registry, work_id) ==
    IF work_id \in DOMAIN registry THEN registry[work_id]
    ELSE IF DOMAIN registry = {} THEN None
    ELSE registry[CHOOSE k \in DOMAIN registry : \A j \in DOMAIN registry : j <= k]
Lookup(registry, work_id) ==
    IF work_id \in DOMAIN registry THEN registry[work_id] ELSE None

\* lines 128-131: my_future = my_futures.get(workitem.work_id, None);
\* if not my_future: continue
ManagerLookup ==
    /\ m_pc = "lookup"
    /\ LET found == Lookup(futures, LookupKey(m_item))
       IN  IF found = None
           THEN /\ m_pc' = "check"
                /\ m_item' = NoItem
                /\ my_future' = None
           ELSE /\ m_pc' = "resolve"
                /\ my_future' = found
                /\ UNCHANGED m_item
    /\ UNCHANGED << is_shutdown, input_queue, output_queue, futures, counter,
                    future, calls, callerVars, silent, workerVars, m_errors,
                    shutdownVars,
                    early >>

\* lines 132-135: set_exception or set_result on my_future.  On a future
\* that is already resolved the call raises, which lines 139-140 log.
ManagerResolve ==
    /\ m_pc = "resolve"
    /\ future' = [future EXCEPT
                    ![my_future] = SetFuture(@, m_item.is_exception,
                                             m_item.response)]
    /\ IF Resolved(my_future)
       THEN /\ m_pc' = "check"
            /\ m_errors' = m_errors + 1
            /\ m_item' = NoItem
            /\ my_future' = None
       ELSE /\ m_pc' = "del"
            /\ UNCHANGED << m_item, my_future, m_errors >>
    /\ UNCHANGED << is_shutdown, input_queue, output_queue, futures, counter,
                    calls, callerVars, silent, workerVars, shutdownVars,
                    early >>

\* line 138: del futures[workitem.work_id].  The function's parameter is
\* my_futures; 'futures' is a module global, unbound when the module is
\* imported (NameError) and bound to the demo's list of futures when it runs
\* as a script.  In neither case is the dict my_futures changed.
DelFutures(registry, work_id) == registry

\* lines 136-140: the del raises, "error in manager" is logged and the loop
\* goes on.
ManagerDel ==
    /\ m_pc = "del"
    /\ futures' = DelFutures(futures, m_item.work_id)
    /\ m_errors' = m_errors + 1
    /\ m_pc' = "check"
    /\ m_item' = NoItem
    /\ my_future' = None
    /\ UNCHANGED << is_shutdown, input_queue, output_queue, counter, future,
                    calls, callerVars, silent, workerVars, shutdownVars,
                    early >>

Manager ==
    \/ ManagerCheck
    \/ ManagerGet
    \/ ManagerLookup
    \/ ManagerResolve
    \/ ManagerDel

(***************************************************************************)
(* ConcurrentClient.shutdown                                               *)
(***************************************************************************)
\* self.workers: the manager first (line 174), then the request workers.
Terminated(i) == IF i = 0 THEN m_pc = "done" ELSE w_pc[i] = "done"

AllTerminated == \A i \in 0..NumWorkers : Terminated(i)

\* self.is_shutdown.set()
EventToggle(flag) == ~flag
EventSet(flag) == TRUE

\* line 191: self.is_shutdown.set()
ShutdownCall ==
    /\ sd_pc = "idle"
    /\ sd_calls < MaxShutdowns
    /\ is_shutdown' = EventSet(is_shutdown)
    /\ sd_calls' = sd_calls + 1
    /\ sd_pc' = "sentinel"
    /\ UNCHANGED << input_queue, output_queue, futures, counter, future, calls,
                    callerVars, silent, workerVars, managerVars, sd_returns,
                    early >>

\* WorkResponse(None, None, None); its is_exception, None, is false at
\* line 132.
Sentinel == WorkResponse(FALSE, None, None)

\* What line 193 leaves on the output queue.
NoWakeup(queue) == queue
Wakeup(queue) == Append(queue, Sentinel)

\* lines 192-193: self.output_queue.put(WorkResponse(None, None, None))
ShutdownSentinel ==
    /\ sd_pc = "sentinel"
    /\ output_queue' = Wakeup(output_queue)
    /\ sd_pc' = "join"
    /\ UNCHANGED << is_shutdown, input_queue, futures, counter, future, calls,
                    callerVars, silent, workerVars, managerVars, sd_calls,
                    sd_returns,
                    early >>

\* worker.join() returns: the thread or process has terminated.
JoinNoWait(i) == TRUE
JoinReturns(i) == Terminated(i)

\* lines 194-196: for worker in self.workers: worker.join().  A join only
\* waits, so the loop is one step: it ends, and shutdown returns, once every
\* join has returned.
ShutdownJoin ==
    /\ sd_pc = "join"
    /\ \A i \in 0..NumWorkers : JoinReturns(i)
    /\ sd_pc' = "idle"
    /\ sd_returns' = sd_returns + 1
    /\ UNCHANGED << is_shutdown, input_queue, output_queue, futures, counter,
                    future, calls, callerVars, silent, workerVars, managerVars,
                    sd_calls,
                    early >>

(***************************************************************************)
(* The program                                                             *)
(***************************************************************************)
Next ==
    \/ \E c \in Callers : ExecuteCall(c)
    \/ \E c \in Callers : ExecutePut(c)
    \/ \E c \in Callers : ExecuteRegister(c)
    \/ \E c \in Callers : ExecuteSilently(c)
    \/ \E w \in Workers : Worker(w)
    \/ Manager
    \/ ShutdownCall
    \/ ShutdownSentinel
    \/ ShutdownJoin

Spec == Init /\ [][Next]_vars

\* Threads that can run are scheduled: a worker, the manager, a caller inside
\* execute and the caller inside shutdown each take their next step
\* eventually.  Whether the application calls execute, execute_silently or
\* shutdown at all is left open.
Fairness ==
    /\ \A w \in Workers : WF_vars(Worker(w))
    /\ WF_vars(Manager)
    /\ \A c \in Callers : WF_vars(ExecutePut(c) \/ ExecuteRegister(c))
    /\ WF_vars(ShutdownSentinel \/ ShutdownJoin)

\* The program with a smaller application, for the properties of its
\* infinite behaviours: at most MaxLiveCalls submissions in all.
LiveBudget == Len(calls) + silent < MaxLiveCalls

LiveNext ==
    \/ \E c \in Callers : LiveBudget /\ ExecuteCall(c)
    \/ \E c \in Callers : ExecutePut(c)
    \/ \E c \in Callers : ExecuteRegister(c)
    \/ \E c \in Callers : LiveBudget /\ ExecuteSilently(c)
    \/ \E w \in Workers : Worker(w)
    \/ Manager
    \/ ShutdownCall
    \/ ShutdownSentinel
    \/ ShutdownJoin

FairSpec == Init /\ [][LiveNext]_vars /\ Fairness

(***************************************************************************)
(* Properties                                                              *)
(***************************************************************************)
Futures == 1..Len(future)

Pending(f) == f \in Futures /\ future[f].state = "PENDING"

\* The work_id under which future f was issued.
TokenOf(f) == calls[f].work_id

\* C1: with no shutdown and fair scheduling, every future returned by
\* execute is eventually resolved, with a result or with a failure.
C1_EveryFutureResolves ==
    \A f \in 1..MaxRequests :
        Pending(f) ~> ((f \in Futures /\ Resolved(f)) \/ sd_calls > 0)

\* The outcome client.execute produces for the request of future f.
OutcomeOf(f) == ClientExecute(calls[f].request)

\* The responses the manager can see: queued, or taken and being handled.
ResponsesInFlight ==
    {output_queue[i] : i \in 1..Len(output_queue)}
        \cup (IF m_pc \in {"lookup", "resolve", "del"} THEN {m_item} ELSE {})

\* C2: a resolved future carries the outcome of client.execute on its own
\* payload; every response tagged with a token carries the outcome for the
\* request issued under that token, and the manager resolves with it only
\* the future issued under that token.
C2_CorrectCorrelation ==
    /\ \A f \in Futures :
          Resolved(f) =>
              /\ future[f].state =
                    (IF OutcomeOf(f).ok THEN "RESULT" ELSE "EXCEPTION")
              /\ future[f].value = OutcomeOf(f).value
    /\ \A r \in ResponsesInFlight :
          r.work_id # None =>
              \E f \in Futures : TokenOf(f) = r.work_id /\ r = ResponseFor(calls[f])
    /\ m_pc \in {"resolve", "del"} => TokenOf(my_future) = m_item.work_id

\* Two futures submitted with different payloads are both resolved, the
\* later one first or the earlier one first.
C2_Witness ==
    \E f, g \in Futures :
        /\ f # g
        /\ calls[f].request # calls[g].request
        /\ Resolved(f) /\ Resolved(g)

\* C3: a future is set at most once: the manager never calls set_result or
\* set_exception on a resolved future, and a resolved future keeps its
\* outcome.
C3_AtMostOnce ==
    /\ [](\A f \in Futures : future[f].sets <= 1)
    /\ [](m_pc = "resolve" => ~Resolved(my_future))
    /\ [][\A f \in Futures :
            Resolved(f) => /\ future'[f].state = future[f].state
                           /\ future'[f].value = future[f].value]_vars

\* The manager is about to resolve one future while another is resolved.
C3_Witness ==
    /\ m_pc = "resolve"
    /\ \E f \in Futures : f # my_future /\ Resolved(f) /\ future[f].sets = 1

\* The tokens carried by requests and responses on their way.
TokensInFlight ==
    {input_queue[i].work_id : i \in 1..Len(input_queue)}
        \cup {workitem[w].work_id : w \in Workers}
        \cup {output_queue[i].work_id : i \in 1..Len(output_queue)}

\* C4: every token carried by a request in the input queue, by a request a
\* worker is executing or by a response in the output queue, and whose
\* future is unresolved, is a key of the registry.
C4_InFlightTokenRegistered ==
    \A f \in Futures :
        (Pending(f) /\ TokenOf(f) \in TokensInFlight)
            => TokenOf(f) \in DOMAIN futures

\* Future f has been returned to its caller.
Returned(f) == \A c \in Callers : c_fut[c] # f

\* C5: whenever the manager is between items, the keys of the registry are
\* exactly the tokens of the returned futures that are still unresolved.
C5_RegistryIsPendingTokens ==
    m_pc \in {"check", "get", "done"} =>
        DOMAIN futures = {TokenOf(f) : f \in {g \in Futures : Pending(g) /\ Returned(g)}}

\* C6: the tokens issued are strictly increasing in issue order, hence
\* pairwise distinct and never issued again.
C6_TokensStrictlyIncreasing ==
    \A i, j \in 1..Len(calls) :
        i < j => calls[i].work_id < calls[j].work_id

\* Two callers are inside execute at once, each with its own token.
C6_Witness ==
    \E c, d \in Callers :
        /\ c # d
        /\ c_pc[c] # "idle" /\ c_pc[d] # "idle"
        /\ c_item[c].work_id # c_item[d].work_id

\* A worker has put the failure of future f's request on the output queue.
FailureProduced(f) ==
    /\ f \in Futures
    /\ \E i \in 1..Len(output_queue) :
          /\ output_queue[i].is_exception
          /\ output_queue[i].work_id = TokenOf(f)

\* C7: with no shutdown, once client.execute has failed for a request its
\* future is resolved in the failure state, and every other pending future
\* is still resolved.
C7_FailureRelayedAndLocal ==
    \A f \in 1..MaxRequests :
        /\ FailureProduced(f) ~>
              ((f \in Futures /\ future[f].state = "EXCEPTION") \/ sd_calls > 0)
        /\ \A g \in 1..MaxRequests \ {f} :
              (FailureProduced(f) /\ Pending(g)) ~>
                  ((g \in Futures /\ Resolved(g)) \/ sd_calls > 0)

\* C8: once shutdown has returned, every worker and the manager have
\* terminated and no pending future is resolved any more.
C8_NoResolutionAfterShutdown ==
    /\ [](sd_returns > 0 => AllTerminated)
    /\ [][sd_returns > 0 =>
            \A f \in Futures : Pending(f) => future'[f].state = "PENDING"]_vars

\* shutdown has returned while the response for a pending, registered
\* future is still on the output queue.
C8_Witness ==
    /\ sd_returns > 0
    /\ \E f \in Futures :
          /\ Pending(f)
          /\ TokenOf(f) \in DOMAIN futures
          /\ \E i \in 1..Len(output_queue) : output_queue[i].work_id = TokenOf(f)

\* C9: under fair scheduling every call of shutdown returns, with every
\* worker and the manager terminated.
C9_ShutdownTerminates ==
    \A k \in 1..MaxShutdowns :
        (sd_calls = k) ~> (sd_returns = k /\ AllTerminated)

\* shutdown was called on an idle pool and has returned; the manager, which
\* was blocked on its get, has consumed the sentinel.
C9_Witness ==
    /\ sd_returns = 1
    /\ calls = << >> /\ silent = 0
    /\ output_queue = << >>

\* C10: a call of shutdown made after a call has returned returns too; from
\* the first return on the signal stays set, the workers and the manager
\* stay terminated and no future changes.
C10_ShutdownIdempotent ==
    /\ \A k \in 2..MaxShutdowns : (sd_calls = k) ~> (sd_returns = k)
    /\ [][sd_returns > 0 =>
            /\ is_shutdown'
            /\ AllTerminated'
            /\ \A f \in Futures : future'[f] = future[f]]_vars

\* The second call of shutdown has returned.
C10_Witness == sd_returns = 2 /\ is_shutdown /\ AllTerminated

\* The responses to fire-and-forget requests: no token, and not the sentinel.
SilentResponse(r) == r.work_id = None /\ r # Sentinel

\* C11: execute_silently appends WorkRequest(request, None) to the input
\* queue and changes neither the registry, the counter nor any future; it
\* can be called whatever is queued and whatever the workers do; the
\* manager discards the response produced for it, resolving and removing
\* nothing.
C11_SilentIsFireAndForget ==
    /\ [][silent' # silent =>
            /\ \E request \in Requests :
                  input_queue' = Append(input_queue, WorkRequest(request, None))
            /\ futures' = futures
            /\ counter' = counter
            /\ future' = future
            /\ calls' = calls]_vars
    /\ [](\A c \in Callers :
            (c_pc[c] = "idle" /\ silent < MaxSilent) => ENABLED ExecuteSilently(c))
    /\ [][(m_pc = "lookup" /\ SilentResponse(m_item) /\ m_pc' # "lookup") =>
            /\ m_pc' = "check"
            /\ future' = future
            /\ futures' = futures]_vars

\* The request of an execute_silently call has been executed and its
\* response discarded while a registered future is pending, with a worker
\* busy on that future's request.
C11_Witness ==
    /\ silent > 0
    /\ \A i \in 1..Len(input_queue) : input_queue[i].work_id # None
    /\ \A w \in Workers : w_pc[w] = "exec" => workitem[w].work_id # None
    /\ \A i \in 1..Len(output_queue) : ~SilentResponse(output_queue[i])
    /\ m_pc \in {"check", "get"}
    /\ \E f \in Futures :
          /\ Pending(f)
          /\ TokenOf(f) \in DOMAIN futures
          /\ \E w \in Workers : workitem[w].work_id = TokenOf(f)

\* The number of requests carrying id that are waiting in the input queue.
Queued(id) == Cardinality({i \in 1..Len(input_queue) : input_queue[i].work_id = id})

\* The number of workers that hold a request carrying id and have not yet
\* returned from my_client.execute.
Executing(id) ==
    Cardinality({w \in Workers : w_pc[w] = "exec" /\ workitem[w].work_id = id})

\* The number of requests carrying id that have been put on the input queue.
Submitted(id) ==
    IF id = None
    THEN silent
    ELSE Cardinality({f \in Futures :
            /\ TokenOf(f) = id
            /\ \A c \in Callers : c_fut[c] = f => c_pc[c] # "put"})

\* C12: every submitted request is dequeued at most once, by one worker,
\* and exactly once with no shutdown; client.execute is invoked exactly
\* once for each dequeued request.
C12_ExactlyOnceProcessing ==
    /\ [](\A id \in Ids :
            /\ Submitted(id) = Queued(id) + dequeues[id]
            /\ dequeues[id] = Executing(id) + executions[id]
            /\ id # None => dequeues[id] <= 1)
    /\ (input_queue # << >>) ~> (input_queue = << >> \/ sd_calls > 0)

\* The two workers have each dequeued one of two submitted requests and
\* are executing them at the same time.
C12_Witness ==
    \E v, w \in Workers :
        /\ v # w
        /\ w_pc[v] = "exec" /\ w_pc[w] = "exec"
        /\ dequeues[workitem[v].work_id] = 1
        /\ dequeues[workitem[w].work_id] = 1
        /\ workitem[v].work_id # workitem[w].work_id

\* C13: while the shutdown signal is unset every worker and the manager
\* are running, whatever they have dequeued.
C13_OnlyShutdownTerminates ==
    ~is_shutdown => \A i \in 0..NumWorkers : ~Terminated(i)

\* With the signal unset, a worker has executed a failing request, the
\* manager has resolved its future and has logged the error raised after
\* the resolution; no thread has terminated.
C13_Witness ==
    /\ ~is_shutdown
    /\ m_errors > 0
    /\ \E f \in Futures : future[f].state = "EXCEPTION"
    /\ \A i \in 0..NumWorkers : ~Terminated(i)

\* The number of sentinels on a queue.
Sentinels(queue) == Cardinality({i \in 1..Len(queue) : queue[i] = Sentinel})

\* C14: shutdown sets the signal, then puts exactly one sentinel on the
\* output queue, then waits for the threads; so a manager blocked on an
\* empty output queue with the signal set has a sentinel still coming, and
\* a manager waiting in its get with the signal set terminates.
C14_SignalThenSentinelThenJoin ==
    /\ [][sd_calls' # sd_calls =>
            /\ is_shutdown'
            /\ output_queue' = output_queue
            /\ sd_pc' = "sentinel"]_vars
    /\ [][(sd_pc = "sentinel" /\ sd_pc' # "sentinel") =>
            /\ is_shutdown
            /\ output_queue' = Append(output_queue, Sentinel)
            /\ sd_pc' = "join"]_vars
    /\ [][Sentinels(output_queue') > Sentinels(output_queue) =>
            sd_pc = "sentinel" /\ sd_pc' = "join"]_vars
    /\ [][sd_returns' # sd_returns =>
            sd_pc = "join" /\ AllTerminated /\ output_queue' = output_queue]_vars
    /\ []((m_pc = "get" /\ is_shutdown /\ output_queue = << >>) =>
            sd_pc = "sentinel")
    /\ (m_pc = "get" /\ is_shutdown) ~> (m_pc = "done")

\* The signal is set while the manager is blocked on the empty output
\* queue; the sentinel has not been put yet.
C14_Witness ==
    /\ is_shutdown
    /\ m_pc = "get"
    /\ output_queue = << >>
    /\ sd_pc = "sentinel"

\* C15: when the manager has dequeued a response whose work_id is not a
\* key of the registry, its step changes no future and leaves the registry
\* as it is, and the manager goes back to the test of its loop.
C15_UnknownIdIsDropped ==
    [][(m_pc = "lookup" /\ m_item.work_id \notin DOMAIN futures
            /\ m_pc' # "lookup") =>
          /\ m_pc' = "check"
          /\ future' = future
          /\ futures' = futures
          /\ m_errors' = m_errors]_vars

\* A registered future is pending and its response is nowhere: the manager
\* looked it up before the future was registered and dropped it; other
\* entries were in the registry.
C15_Witness ==
    /\ m_pc \in {"check", "get"}
    /\ \E f, g \in Futures :
          /\ f # g
          /\ TokenOf(g) \in DOMAIN futures
          /\ Pending(f) /\ Returned(f)
          /\ executions[TokenOf(f)] = 1
          /\ \A i \in 1..Len(output_queue) : output_queue[i].work_id # TokenOf(f)

\* C16: a worker that has dequeued a request puts exactly one response
\* with the request's work_id and the outcome of client.execute, then goes
\* back to the test of its loop, also when the signal was set meanwhile; it
\* terminates only from that test.
C16_WorkerFinishesItsCycle ==
    /\ [][\A w \in Workers :
            (w_pc[w] = "get" /\ w_pc'[w] = "exec") =>
                workitem'[w] = Head(input_queue)]_vars
    /\ [][\A w \in Workers :
            (w_pc[w] = "exec" /\ w_pc'[w] # "exec") =>
                /\ w_pc'[w] = "check"
                /\ output_queue' = Append(output_queue,
                      [is_exception |-> ~ClientExecute(workitem[w].request).ok,
                       work_id      |-> workitem[w].work_id,
                       response     |-> ClientExecute(workitem[w].request).value])]_vars
    /\ [][\A w \in Workers :
            (w_pc[w] # "done" /\ w_pc'[w] = "done") =>
                w_pc[w] = "check" /\ is_shutdown]_vars

\* A response with a token lies behind the sentinel on the output queue: a
\* worker has put it after the signal was set.
C16_Witness ==
    /\ is_shutdown
    /\ \E i, j \in 1..Len(output_queue) :
          /\ i < j
          /\ output_queue[i] = Sentinel
          /\ output_queue[j].work_id # None

\* The workers that have run line 90, and the clients created so far.
Started == {w \in Workers : w_pc[w] # "start"}
ClientsCreated == {my_client[w] : w \in Started}

\* C17: a worker calls the factory once, after it has started and before its
\* first dequeue, and keeps the client; each execute is called on the client
\* of the calling worker; no two workers hold or use the same client, so
\* there are as many clients as workers that have started, worker_count once
\* all have.
C17_ClientOwnership ==
    /\ [](\A w \in Workers :
            /\ w \notin Started => clients[w] = 0 /\ my_client[w] = None
            /\ w \in Started => clients[w] = 1 /\ my_client[w] # None
            /\ w_pc[w] \in {"get", "exec"} => clients[w] = 1
            /\ w_pc[w] = "exec" <=> receiver[w] # None
            /\ receiver[w] # None => receiver[w] = my_client[w])
    /\ [](\A w, v \in Started : w # v =>
            /\ my_client[w] # my_client[v]
            /\ receiver[w] = None \/ receiver[w] # receiver[v])
    /\ [](/\ Cardinality(ClientsCreated) = Cardinality(Started)
          /\ Started = Workers => Cardinality(ClientsCreated) = NumWorkers)
    /\ [][\A w \in Workers :
            my_client[w] # None => my_client'[w] = my_client[w]]_vars

\* Both workers are inside an execute, each on its own client.
C17_Witness ==
    /\ \A w \in Workers : w_pc[w] = "exec" /\ receiver[w] = my_client[w]
    /\ Cardinality({receiver[w] : w \in Workers}) = NumWorkers

\* The responses on the output queue that were put before the signal was
\* set and whose token has a registered future that is still unresolved.
EarlyUndelivered ==
    {i \in 1..early :
        /\ output_queue[i].work_id \in DOMAIN futures
        /\ Pending(futures[output_queue[i].work_id])}

\* C18 as stated: once the manager has terminated, no response put before
\* the signal was set is left on the output queue with a registered,
\* unresolved future.
C18_DrainedOnShutdown == m_pc = "done" => EarlyUndelivered = {}

\* C18, amended: once the signal is set the manager does not go back to its
\* dequeue, so it takes at most the one item it was already waiting for; it
\* ends with no item in hand, and the responses put before the signal that
\* it has left on the output queue stay there.
C18_ManagerStopsAtSignal ==
    /\ [][(is_shutdown /\ m_pc # "get") => m_pc' # "get"]_vars
    /\ [](m_pc = "done" => m_item = NoItem /\ my_future = None)
    /\ [][m_pc = "done" =>
            /\ m_pc' = "done"
            /\ early' = early
            /\ SubSeq(output_queue', 1, Len(output_queue)) = output_queue
            /\ \A i \in EarlyUndelivered :
                  Pending(futures[output_queue[i].work_id])']_vars

\* shutdown has returned and a response put before the signal, for a
\* registered and unresolved future, is still on the output queue.
C18_Witness == sd_returns > 0 /\ m_pc = "done" /\ EarlyUndelivered # {}

\* C19: once a shutdown call has returned, no worker dequeues a request,
\* starts or finishes an execute, or puts a response (the output queue gets
\* at most the sentinel of another shutdown call); the requests on the input
\* queue stay there, further requests are appended behind them, and every
\* unresolved future, old or new, stays unresolved.
C19_QuiescentAfterShutdown ==
    [][sd_returns > 0 =>
        /\ dequeues' = dequeues
        /\ executions' = executions
        /\ receiver' = receiver
        /\ \A w \in Workers : w_pc[w] = "done" /\ w_pc'[w] = "done"
        /\ output_queue' \in {output_queue, Append(output_queue, Sentinel)}
        /\ SubSeq(input_queue', 1, Len(input_queue)) = input_queue
        /\ \A f \in 1..Len(future') :
              (f \in Futures => Pending(f)) => future'[f].state = "PENDING"]_vars

\* shutdown has returned; the input queue holds a request of execute whose
\* future is registered and unresolved, and a request of execute_silently.
C19_Witness ==
    /\ sd_returns > 0
    /\ \E i, j \in 1..Len(input_queue) :
          /\ input_queue[i].work_id \in DOMAIN futures
          /\ Pending(futures[input_queue[i].work_id])
          /\ input_queue[j].work_id = None

=============================================================================
